---- MODULE Spec2Model ----
(***************************************************************************)
(* xTools serial terminal: the graphical client (src/src/App.vue) and the  *)
(* serial core it calls through invoke().                                  *)
(*                                                                         *)
(* Strings are sequences of character codes (UTF-16 code units, all in    *)
(* the basic plane), bytes are numbers 0..255.  Every handler of the       *)
(* client is split at its `await`: one action up to the invoke, one action *)
(* for the continuation that runs when the reply is delivered.  The serial *)
(* core is not part of src/; it is modelled from spec.md (sections 4.2,    *)
(* 4.3, 5, 7): one request is served at a time under the device lock, a    *)
(* lock gives mutual exclusion and no order, so any pending request may be *)
(* served next and any finished reply may be delivered next.  The calls to  *)
(* save_config (after a connect and after a settings change) touch neither *)
(* the client's state nor the connection: they are followed where persist  *)
(* is set (the specification of the startup) and left out elsewhere.       *)
(***************************************************************************)
EXTENDS Integers, Sequences, FiniteSets, Bags, TLC

\* ------------------------------------------------------------------ bounds
\* requests that may be in flight at once
MaxInflight == 2
\* entries the data log may hold
MaxLog == 2
\* bytes the device sends during one run (the stream 1, 2, ..., MaxRx)
MaxRx == 2

\* ------------------------------------------------------------- characters
Whitespace == {9, 10, 13, 32}
CRLF == <<13, 10>>
LF == <<10>>
CR == <<13>>
DEL == <<127>>

TxtHexPair == <<52, 97>>                        \* "4a"
TxtHello == <<52, 56, 32, 54, 53>>              \* "48 65"
TxtOddToken == <<65, 66, 32, 67, 68, 32, 69>>   \* "AB CD E"
TxtNotHex == <<71>>                             \* "G"
TxtWide == <<20013>>                            \* one CJK character, U+4E2D
TxtA == <<65>>                                  \* "A"

\* the texts typed into the send box, by specification
CodecTexts == {<<>>, TxtHexPair, TxtHello, TxtOddToken, TxtNotHex, TxtWide}
SendTexts == {<<>>, TxtOddToken}
SessionTexts == {TxtA}

\* ------------------------------------------------------------------ codec
\* Number.prototype.toString(16): lowercase digits, no leading zero
RECURSIVE toString16(_)
toString16(n) ==
  LET d == n % 16
      c == IF d < 10 THEN 48 + d ELSE 87 + d
  IN IF n < 16 THEN <<c>> ELSE Append(toString16(n \div 16), c)

toUpperCase(s) == [i \in 1..Len(s) |-> IF s[i] >= 97 /\ s[i] <= 122 THEN s[i] - 32 ELSE s[i]]

padStart2(s) == IF Len(s) < 2 THEN <<48>> \o s ELSE s

RECURSIVE JoinSpace(_)
JoinSpace(parts) ==
  IF parts = <<>> THEN <<>>
  ELSE IF Len(parts) = 1 THEN parts[1]
  ELSE parts[1] \o <<32>> \o JoinSpace(Tail(parts))

\* stringToHex: charCodeAt(0).toString(16).toUpperCase().padStart(2, "0"), joined by " "
stringToHex(str) ==
  JoinSpace([i \in 1..Len(str) |-> padStart2(toUpperCase(toString16(str[i])))])

\* the serial core's canonical encoding: two uppercase digits per byte, single spaces
HexByte(b) ==
  LET dig(d) == IF d < 10 THEN 48 + d ELSE 55 + d
  IN <<dig(b \div 16), dig(b % 16)>>

HexEncode(bytes) == JoinSpace([i \in 1..Len(bytes) |-> HexByte(bytes[i])])

\* the bytes of a string handed to the core: its UTF-8 encoding
Utf8Char(c) ==
  IF c < 128 THEN <<c>>
  ELSE IF c < 2048 THEN <<192 + (c \div 64), 128 + (c % 64)>>
  ELSE <<224 + (c \div 4096), 128 + ((c \div 64) % 64), 128 + (c % 64)>>

RECURSIVE Utf8(_)
Utf8(s) == IF s = <<>> THEN <<>> ELSE Utf8Char(Head(s)) \o Utf8(Tail(s))

\* split on whitespace, empty tokens dropped
RECURSIVE SplitFrom(_, _, _)
SplitFrom(s, i, cur) ==
  IF i > Len(s) THEN (IF cur = <<>> THEN <<>> ELSE <<cur>>)
  ELSE IF s[i] \in Whitespace
       THEN (IF cur = <<>> THEN <<>> ELSE <<cur>>) \o SplitFrom(s, i + 1, <<>>)
       ELSE SplitFrom(s, i + 1, Append(cur, s[i]))

SplitWhitespace(s) == SplitFrom(s, 1, <<>>)

HexDigit(c) ==
  IF c >= 48 /\ c <= 57 THEN c - 48
  ELSE IF c >= 65 /\ c <= 70 THEN c - 55
  ELSE IF c >= 97 /\ c <= 102 THEN c - 87
  ELSE -1

\* one token as a byte, or -1.  spec.md 4.3 accepts one or two hex digits, its
\* section 8 rejects "AB CD E" for the one-digit token: oneDigit says which reading
\* the core implements.
TokenByte(tok, oneDigit) ==
  IF Len(tok) = 2 /\ HexDigit(tok[1]) >= 0 /\ HexDigit(tok[2]) >= 0
    THEN 16 * HexDigit(tok[1]) + HexDigit(tok[2])
  ELSE IF Len(tok) = 1 /\ HexDigit(tok[1]) >= 0 /\ oneDigit
    THEN HexDigit(tok[1])
  ELSE -1

\* hex-mode payload to bytes: [ok, bytes]
ParseHex(text, oneDigit) ==
  LET toks == SplitWhitespace(text)
      vals == [i \in 1..Len(toks) |-> TokenByte(toks[i], oneDigit)]
  IN IF \E i \in 1..Len(vals) : vals[i] < 0
     THEN [ok |-> FALSE, bytes |-> <<>>]
     ELSE [ok |-> TRUE, bytes |-> vals]

\* both readings of the one-digit token are outcomes the core may produce
HexOutcomes(text) == {ParseHex(text, TRUE), ParseHex(text, FALSE)}

\* ------------------------------------------------------------------ state
VARIABLES
  connected,       \* ref connected
  pollInterval,    \* the poll timer's id, 0 for null
  timers,          \* the interval timers of the window that are not cleared
  dataLog,         \* ref dataLog: DataEntry records (the timestamp is left out)
  sendText,        \* ref sendText
  config,          \* ref config: port and parity (the controls for baud rate, data
                   \* bits and stop bits are of parity's kind), hex_mode,
                   \* append_newline, newline_type, terminal_mode
  inflight,        \* the invoke() calls whose promise is not settled yet (a bag)
  open,            \* serial core: ConnectionState = Connected
  arrived,         \* device: bytes it has sent so far (byte i has the value i)
  drained,         \* serial core: bytes read_available has handed out or dropped
  history,         \* whether requests record when they were issued and served
  persist,         \* whether the calls to the persistence collaborators are followed
  stage,           \* the component: "created", "mounted" or "unmounted"
  listening,       \* handleKeydown is registered on the document
  ports,           \* ref ports
  showSearch,      \* ref showSearch
  searchText,      \* ref searchText
  searchIndex,     \* ref searchIndex
  openedWith       \* serial core: the config snapshot of the open connection

\* ref terminalBuffer is written by handleTerminalInput and clearLog and read by
\* nothing, in the script or in the template: it is no part of the state here.

vars == <<connected, pollInterval, timers, dataLog, sendText, config,
          inflight, open, arrived, drained, history, persist, stage, listening,
          ports, showSearch, searchText, searchIndex, openedWith>>
client == <<connected, pollInterval, timers, dataLog, sendText, config>>
core == <<open, arrived, drained, openedWith>>
\* what the handlers of a session and the I/O commands of the core leave alone
flags == <<history, persist>>
shell == <<stage, listening, ports, showSearch, searchText, searchIndex>>

\* invoke(cmd, args): a request on its way to the core.  st is "sent" until the core
\* has served it, then "ok" or "err" until the promise is settled in the client.  The
\* core fills in err, entries (read_data's result), result (get_config's and
\* list_ports' result), wire (the bytes it put on the line) and mark (how many device bytes had been drained when it sent them).
\* With history on, late records that the call was issued while a disconnect() was
\* under way (its request in flight), and mark is kept; with history off both stay
\* at their initial value.
Requests == BagToSet(inflight)

Disconnecting == \E q \in Requests : q.cmd = "disconnect_serial"

Request(cmd, from, data, hexMode) ==
  [cmd |-> cmd, from |-> from, data |-> data, hexMode |-> hexMode,
   st |-> "sent", err |-> "none", wire |-> <<>>, entries |-> <<>>, result |-> <<>>,
   mark |-> 0,
   late |-> history /\ Disconnecting]

Invoke(req) ==
  /\ BagCardinality(inflight) < MaxInflight
  /\ inflight' = inflight (+) SetToBag({req})

Settle(r) == inflight' = inflight (-) SetToBag({r})

\* a continuation that makes further calls: r is settled and the calls qs are issued
SettleAnd(r, qs) ==
  /\ BagCardinality(inflight) - 1 + BagCardinality(qs) <= MaxInflight
  /\ inflight' = (inflight (-) SetToBag({r})) (+) qs

Resolved(r, cmd, from) == r.cmd = cmd /\ r.from = from /\ r.st = "ok"

Rejected(r, cmd, from) == r.cmd = cmd /\ r.from = from /\ r.st = "err"

\* the built-in value of config
DefaultConfig ==
  [port |-> "", parity |-> "none", hex_mode |-> FALSE, append_newline |-> TRUE,
   newline_type |-> "crlf", terminal_mode |-> FALSE]

\* the arguments of connect_serial taken from config
Snapshot(c) == [port |-> c.port, parity |-> c.parity]

NoSnapshot == [port |-> "", parity |-> ""]

\* a session: the component is mounted, startup is over, a port is chosen
Init ==
  /\ connected = FALSE
  /\ pollInterval = 0
  /\ timers = {}
  /\ dataLog = <<>>
  /\ sendText = <<>>
  /\ config = [DefaultConfig EXCEPT !.port = "COM1"]
  /\ inflight = EmptyBag
  /\ open = FALSE
  /\ arrived = 0
  /\ drained = 0
  /\ history = FALSE
  /\ persist = FALSE
  /\ stage = "mounted"
  /\ listening = TRUE
  /\ ports = <<"COM1">>
  /\ showSearch = FALSE
  /\ searchText = <<>>
  /\ searchIndex = -1
  /\ openedWith = NoSnapshot

\* ----------------------------------------------------------------- poller
NewTimer == IF timers = {} THEN 1 ELSE 1 + CHOOSE m \in timers : \A t \in timers : t <= m

\* startPolling without its check of pollInterval
startPollingUnguarded ==
  /\ pollInterval' = NewTimer
  /\ timers' = timers \cup {NewTimer}

startPolling ==
  IF pollInterval # 0
  THEN UNCHANGED <<pollInterval, timers>>
  ELSE /\ pollInterval' = NewTimer
       /\ timers' = timers \cup {NewTimer}

stopPolling ==
  IF pollInterval # 0
  THEN /\ timers' = timers \ {pollInterval}
       /\ pollInterval' = 0
  ELSE UNCHANGED <<pollInterval, timers>>

\* ------------------------------------------------------------ persistence
\* saveConfig(): the calls it makes (its catch branch only reports)
saveConfig ==
  IF persist THEN SetToBag({Request("save_config", "saveConfig", <<>>, FALSE)})
  ELSE EmptyBag

saveConfigResolved(r) ==
  /\ Resolved(r, "save_config", "saveConfig")
  /\ Settle(r)
  /\ UNCHANGED <<flags, shell, client, core>>

saveConfigRejected(r) ==
  /\ Rejected(r, "save_config", "saveConfig")
  /\ Settle(r)
  /\ UNCHANGED <<flags, shell, client, core>>

\* the save button of the log, up to the await
saveLog ==
  /\ stage = "mounted"
  /\ Invoke(Request("save_log", "saveLog", <<>>, FALSE))
  /\ UNCHANGED <<flags, shell, client, core>>

saveLogResolved(r) ==
  /\ Resolved(r, "save_log", "saveLog")
  /\ Settle(r)
  /\ UNCHANGED <<flags, shell, client, core>>

saveLogRejected(r) ==
  /\ Rejected(r, "save_log", "saveLog")
  /\ Settle(r)
  /\ UNCHANGED <<flags, shell, client, core>>

\* ------------------------------------------------------- connect, disconnect
\* the connect button (shown while not connected), up to the await
connect ==
  /\ stage = "mounted"
  /\ ~connected
  /\ config.port # ""
  /\ Invoke(Request("connect_serial", "connect", Snapshot(config), FALSE))
  /\ UNCHANGED <<flags, shell, client, core>>

connectResolved(r) ==
  /\ Resolved(r, "connect_serial", "connect")
  /\ connected' = TRUE
  /\ startPolling
  /\ SettleAnd(r, saveConfig)
  /\ UNCHANGED <<flags, shell, dataLog, sendText, config, core>>

\* connectRejected with the catch branch forcing the client to disconnected
connectRejectedResets(r) ==
  /\ Rejected(r, "connect_serial", "connect")
  /\ connected' = FALSE
  /\ stopPolling
  /\ Settle(r)
  /\ UNCHANGED <<flags, shell, dataLog, sendText, config, core>>

connectRejected(r) ==
  /\ Rejected(r, "connect_serial", "connect")
  /\ Settle(r)
  /\ UNCHANGED <<flags, shell, client, core>>

\* the disconnect button (shown while connected), up to the await
disconnect ==
  /\ stage = "mounted"
  /\ connected
  /\ stopPolling
  /\ Invoke(Request("disconnect_serial", "disconnect", <<>>, FALSE))
  /\ UNCHANGED <<flags, shell, connected, dataLog, sendText, config, core>>

disconnectResolved(r) ==
  /\ Resolved(r, "disconnect_serial", "disconnect")
  /\ connected' = FALSE
  /\ Settle(r)
  /\ UNCHANGED <<flags, shell, pollInterval, timers, dataLog, sendText, config, core>>

disconnectRejected(r) ==
  /\ Rejected(r, "disconnect_serial", "disconnect")
  /\ Settle(r)
  /\ UNCHANGED <<flags, shell, client, core>>

\* --------------------------------------------------------------- poll tick
\* the interval callback of a timer that is not cleared, up to the await
pollTick(t) ==
  /\ t \in timers
  /\ Invoke(Request("read_data", "poll", <<>>, FALSE))
  /\ UNCHANGED <<flags, shell, client, core>>

\* pollResolved pushing only the first entry of a reply
pollResolvedFirstOnly(r) ==
  /\ Resolved(r, "read_data", "poll")
  /\ LET entries == r.entries
     IN IF Len(entries) > 0
        THEN /\ Len(dataLog) + Len(entries) <= MaxLog
             /\ dataLog' = Append(dataLog, entries[1])
        ELSE UNCHANGED dataLog
  /\ Settle(r)
  /\ UNCHANGED <<flags, shell, connected, pollInterval, timers, sendText, config, core>>

\* pollResolved assigning the reply to the log instead of pushing it
pollResolvedReplaces(r) ==
  /\ Resolved(r, "read_data", "poll")
  /\ LET entries == r.entries
     IN IF Len(entries) > 0
        THEN /\ Len(dataLog) + Len(entries) <= MaxLog
             /\ dataLog' = entries
        ELSE UNCHANGED dataLog
  /\ Settle(r)
  /\ UNCHANGED <<flags, shell, connected, pollInterval, timers, sendText, config, core>>

pollResolved(r) ==
  /\ Resolved(r, "read_data", "poll")
  /\ LET entries == r.entries
     IN IF Len(entries) > 0
        THEN /\ Len(dataLog) + Len(entries) <= MaxLog
             /\ dataLog' = dataLog \o entries
        ELSE UNCHANGED dataLog
  /\ Settle(r)
  /\ UNCHANGED <<flags, shell, connected, pollInterval, timers, sendText, config, core>>

\* pollRejected treating a failed read as the end of the connection
pollRejectedDisconnects(r) ==
  /\ Rejected(r, "read_data", "poll")
  /\ connected' = FALSE
  /\ stopPolling
  /\ Settle(r)
  /\ UNCHANGED <<flags, shell, dataLog, sendText, config, core>>

pollRejected(r) ==
  /\ Rejected(r, "read_data", "poll")
  /\ Settle(r)
  /\ UNCHANGED <<flags, shell, client, core>>

\* -------------------------------------------------------------------- send
\* the line ending send() appends to the payload
LineEnding ==
  IF ~config.append_newline THEN <<>>
  ELSE IF config.newline_type = "crlf" THEN CRLF
  ELSE IF config.newline_type = "lf" THEN LF
  ELSE IF config.newline_type = "cr" THEN CR
  ELSE <<>>

\* the entry send() pushes once send_data has resolved: built from sendText and
\* config as they are when the continuation runs
TxEntry ==
  [data |-> sendText,
   hex |-> IF config.hex_mode THEN sendText ELSE stringToHex(sendText),
   direction |-> "tx"]

\* send without its check of connected
sendUnguarded ==
  /\ stage = "mounted"
  /\ ~config.terminal_mode
  /\ sendText # <<>>
  /\ Invoke(Request("send_data", "send", sendText \o LineEnding, config.hex_mode))
  /\ UNCHANGED <<flags, shell, client, core>>

\* the send button and Ctrl+Enter of the send box (rendered outside terminal mode),
\* up to the await
send ==
  /\ stage = "mounted"
  /\ ~config.terminal_mode
  /\ sendText # <<>>
  /\ connected
  /\ Invoke(Request("send_data", "send", sendText \o LineEnding, config.hex_mode))
  /\ UNCHANGED <<flags, shell, client, core>>

sendResolved(r) ==
  /\ Resolved(r, "send_data", "send")
  /\ Len(dataLog) < MaxLog
  /\ dataLog' = Append(dataLog, TxEntry)
  /\ sendText' = IF ~config.terminal_mode THEN <<>> ELSE sendText
  /\ Settle(r)
  /\ UNCHANGED <<flags, shell, connected, pollInterval, timers, config, core>>

\* sendRejected clearing the send box as the success path does
sendRejectedClears(r) ==
  /\ Rejected(r, "send_data", "send")
  /\ sendText' = <<>>
  /\ Settle(r)
  /\ UNCHANGED <<flags, shell, connected, pollInterval, timers, dataLog, config, core>>

sendRejected(r) ==
  /\ Rejected(r, "send_data", "send")
  /\ Settle(r)
  /\ UNCHANGED <<flags, shell, client, core>>

\* ----------------------------------------------------------- terminal mode
KeyEnter == <<69, 110, 116, 101, 114>>                          \* "Enter"
KeyBackspace == <<66, 97, 99, 107, 115, 112, 97, 99, 101>>      \* "Backspace"
KeyArrowUp == <<65, 114, 114, 111, 119, 85, 112>>               \* "ArrowUp"
KeyControl == <<67, 111, 110, 116, 114, 111, 108>>              \* "Control"
KeyF5 == <<70, 53>>                                             \* "F5"

toLowerCase(s) == [i \in 1..Len(s) |-> IF s[i] >= 65 /\ s[i] <= 90 THEN s[i] + 32 ELSE s[i]]

\* JavaScript's <= on strings: by code unit, a proper prefix first
RECURSIVE StrLe(_, _)
StrLe(a, b) ==
  IF a = <<>> THEN TRUE
  ELSE IF b = <<>> THEN FALSE
  ELSE IF Head(a) # Head(b) THEN Head(a) < Head(b)
  ELSE StrLe(Tail(a), Tail(b))

\* the character handleTerminalInput sends for a keydown event, <<>> for none
TerminalChar(e) ==
  IF e.key = KeyEnter THEN CR
  ELSE IF e.key = KeyBackspace THEN DEL
  ELSE IF Len(e.key) = 1 THEN e.key
  ELSE IF e.ctrlKey /\ StrLe(<<97>>, toLowerCase(e.key)) /\ StrLe(toLowerCase(e.key), <<122>>)
    THEN <<toLowerCase(e.key)[1] - 96>>
  ELSE <<>>

KeyEvent(key, ctrlKey) == [key |-> key, ctrlKey |-> ctrlKey]

\* the keys pressed in the session specification
SessionKeys == {KeyEvent(<<97>>, FALSE)}

\* the keys pressed in the terminal specification: a, Ctrl+a, Enter, Backspace,
\* ArrowUp, F5 and the Control key itself (its keydown event has ctrlKey set)
TerminalKeys ==
  {KeyEvent(<<97>>, FALSE), KeyEvent(<<97>>, TRUE), KeyEvent(KeyEnter, FALSE),
   KeyEvent(KeyBackspace, FALSE), KeyEvent(KeyArrowUp, FALSE), KeyEvent(KeyF5, FALSE),
   KeyEvent(KeyControl, TRUE)}

\* keydown on the hidden input (rendered in terminal mode), up to the await
handleTerminalInput(e) ==
  /\ stage = "mounted"
  /\ config.terminal_mode
  /\ connected
  /\ TerminalChar(e) # <<>>
  /\ Invoke(Request("send_data", "terminal", TerminalChar(e), FALSE))
  /\ UNCHANGED <<flags, shell, client, core>>

terminalResolved(r) ==
  /\ Resolved(r, "send_data", "terminal")
  /\ Settle(r)
  /\ UNCHANGED <<flags, shell, connected, pollInterval, timers, dataLog, sendText, config, core>>

terminalRejected(r) ==
  /\ Rejected(r, "send_data", "terminal")
  /\ Settle(r)
  /\ UNCHANGED <<flags, shell, client, core>>

\* ------------------------------------------------------ log, text, settings
clearLog ==
  /\ stage = "mounted"
  /\ dataLog' = <<>>
  /\ UNCHANGED <<flags, shell, connected, pollInterval, timers, sendText, config, inflight, core>>

\* typing into the send box (rendered outside terminal mode, disabled unless connected)
editSendText(t) ==
  /\ stage = "mounted"
  /\ ~config.terminal_mode
  /\ connected
  /\ t # sendText
  /\ sendText' = t
  /\ UNCHANGED <<flags, shell, connected, pollInterval, timers, dataLog, config,
                 inflight, core>>

\* a control bound to a field of config; the deep watcher on config calls saveConfig
SetConfig(c) ==
  /\ stage = "mounted"
  /\ config' = c
  /\ BagCardinality(inflight) + BagCardinality(saveConfig) <= MaxInflight
  /\ inflight' = inflight (+) saveConfig
  /\ UNCHANGED <<flags, shell, connected, pollInterval, timers, dataLog, sendText, core>>

toggleTerminalMode == SetConfig([config EXCEPT !.terminal_mode = ~@])

\* the HEX and line-ending controls are rendered outside terminal mode
toggleHexMode ==
  /\ ~config.terminal_mode
  /\ SetConfig([config EXCEPT !.hex_mode = ~@])

toggleAppendNewline ==
  /\ ~config.terminal_mode
  /\ SetConfig([config EXCEPT !.append_newline = ~@])

selectNewlineType(v) ==
  /\ ~config.terminal_mode
  /\ config.append_newline
  /\ v # config.newline_type
  /\ SetConfig([config EXCEPT !.newline_type = v])

\* the serial settings are disabled while connected
selectPort(v) ==
  /\ ~connected
  /\ v # config.port
  /\ v = "" \/ \E i \in 1..Len(ports) : ports[i] = v
  /\ SetConfig([config EXCEPT !.port = v])

selectParity(v) ==
  /\ ~connected
  /\ v # config.parity
  /\ SetConfig([config EXCEPT !.parity = v])

\* ------------------------------------------------------------------ search
\* String.prototype.includes
includes(str, search) ==
  \E i \in 0..(Len(str) - Len(search)) : SubSeq(str, i + 1, i + Len(search)) = search

\* computed filteredLog: the entries whose text or hex contains the search text,
\* case-insensitively; all of them for an empty search text
filteredLog ==
  IF searchText = <<>> THEN dataLog
  ELSE SelectSeq(dataLog,
         LAMBDA entry : \/ includes(toLowerCase(entry.data), toLowerCase(searchText))
                        \/ includes(toLowerCase(entry.hex), toLowerCase(searchText)))

\* the document's keydown listener: Ctrl+F toggles the bar and empties the search
\* text when it hides it; any other key is ignored
handleKeydown(e) ==
  /\ listening
  /\ IF e.ctrlKey /\ e.key = <<102>>
     THEN /\ showSearch' = ~showSearch
          /\ searchText' = IF showSearch THEN <<>> ELSE searchText
     ELSE UNCHANGED <<showSearch, searchText>>
  /\ UNCHANGED <<flags, stage, listening, ports, searchIndex, client, inflight, core>>

\* typing into the input of the search bar
editSearchText(t) ==
  /\ stage = "mounted"
  /\ showSearch
  /\ t # searchText
  /\ searchText' = t
  /\ UNCHANGED <<flags, stage, listening, ports, showSearch, searchIndex, client,
                 inflight, core>>

\* the close button of the search bar
closeSearch ==
  /\ stage = "mounted"
  /\ showSearch
  /\ showSearch' = FALSE
  /\ UNCHANGED <<flags, stage, listening, ports, searchText, searchIndex, client,
                 inflight, core>>

\* Escape in the input of the search bar
escapeSearch ==
  /\ stage = "mounted"
  /\ showSearch
  /\ showSearch' = FALSE
  /\ UNCHANGED <<flags, stage, listening, ports, searchText, searchIndex, client,
                 inflight, core>>

\* the buttons of the search bar (Enter in its input calls findNext)
findNext ==
  /\ stage = "mounted"
  /\ showSearch
  /\ searchIndex' = IF searchText = <<>> \/ Len(filteredLog) = 0 THEN searchIndex
                    ELSE (searchIndex + 1) % Len(filteredLog)
  /\ UNCHANGED <<flags, stage, listening, ports, showSearch, searchText, client,
                 inflight, core>>

findPrev ==
  /\ stage = "mounted"
  /\ showSearch
  /\ searchIndex' = IF searchText = <<>> \/ Len(filteredLog) = 0 THEN searchIndex
                    ELSE IF searchIndex <= 0 THEN Len(filteredLog) - 1
                    ELSE searchIndex - 1
  /\ UNCHANGED <<flags, stage, listening, ports, showSearch, searchText, client,
                 inflight, core>>

\* ------------------------------------------------- ports, mount and unmount
\* the refresh button, up to the await
refreshPorts ==
  /\ stage = "mounted"
  /\ Invoke(Request("list_ports", "refreshPorts", <<>>, FALSE))
  /\ UNCHANGED <<flags, shell, client, core>>

\* onMounted calls refreshPorts too and registers handleKeydown when it returns
refreshPortsResolved(r) ==
  /\ r.cmd = "list_ports" /\ r.st = "ok"
  /\ ports' = r.result
  /\ listening' = IF r.from = "onMounted" THEN TRUE ELSE listening
  /\ Settle(r)
  /\ UNCHANGED <<flags, stage, showSearch, searchText, searchIndex, client, core>>

refreshPortsRejected(r) ==
  /\ r.cmd = "list_ports" /\ r.st = "err"
  /\ listening' = IF r.from = "onMounted" THEN TRUE ELSE listening
  /\ Settle(r)
  /\ UNCHANGED <<flags, stage, ports, showSearch, searchText, searchIndex, client, core>>

\* onMounted, up to the await of loadConfig's get_config
onMounted ==
  /\ stage = "created"
  /\ stage' = "mounted"
  /\ Invoke(Request("get_config", "onMounted", <<>>, FALSE))
  /\ UNCHANGED <<flags, listening, ports, showSearch, searchText, searchIndex, client, core>>

\* loadConfig's continuation and onMounted's next step: config is replaced (the
\* watcher calls saveConfig) and refreshPorts is called
loadConfigResolved(r) ==
  /\ Resolved(r, "get_config", "onMounted")
  /\ config' = r.result
  /\ SettleAnd(r, saveConfig (+) SetToBag({Request("list_ports", "onMounted", <<>>, FALSE)}))
  /\ UNCHANGED <<flags, shell, connected, pollInterval, timers, dataLog, sendText, core>>

\* loadConfigRejected with the failure ending onMounted
loadConfigRejectedAborts(r) ==
  /\ Rejected(r, "get_config", "onMounted")
  /\ Settle(r)
  /\ UNCHANGED <<flags, shell, client, core>>

loadConfigRejected(r) ==
  /\ Rejected(r, "get_config", "onMounted")
  /\ SettleAnd(r, SetToBag({Request("list_ports", "onMounted", <<>>, FALSE)}))
  /\ UNCHANGED <<flags, shell, client, core>>

onUnmounted ==
  /\ stage = "mounted"
  /\ stage' = "unmounted"
  /\ stopPolling
  /\ listening' = FALSE
  /\ UNCHANGED <<flags, ports, showSearch, searchText, searchIndex, connected, dataLog,
                 sendText, config, inflight, core>>

\* ------------------------------------------------------------- serial core
Pending(r, cmd) == r.st = "sent" /\ r.cmd = cmd

Reply(r, done) == inflight' = (inflight (-) SetToBag({r})) (+) SetToBag({done})

Fail(r, e) == [r EXCEPT !.st = "err", !.err = e]

\* connect(config): AlreadyConnected when open, DeviceError when the open call fails
connect_serial(r) ==
  /\ Pending(r, "connect_serial")
  /\ IF open
     THEN /\ Reply(r, Fail(r, "AlreadyConnected"))
          /\ UNCHANGED <<open, openedWith>>
     ELSE \/ /\ Reply(r, [r EXCEPT !.st = "ok"])
             /\ open' = TRUE
             /\ openedWith' = r.data
          \/ /\ Reply(r, Fail(r, "DeviceError"))
             /\ UNCHANGED <<open, openedWith>>
  /\ UNCHANGED <<flags, shell, client, arrived, drained>>

\* disconnect(): NotConnected when closed, else the handle is released and what the
\* device had buffered is dropped with it
disconnect_serial(r) ==
  /\ Pending(r, "disconnect_serial")
  /\ IF open
     THEN /\ Reply(r, [r EXCEPT !.st = "ok"])
          /\ open' = FALSE
          /\ openedWith' = NoSnapshot
          /\ drained' = arrived
     ELSE /\ Reply(r, Fail(r, "NotConnected"))
          /\ UNCHANGED <<open, openedWith, drained>>
  /\ UNCHANGED <<flags, shell, client, arrived>>

\* the outcomes of send(payload, hex_mode) on an open connection
SendOutcomes(q) ==
  LET parsed == IF q.hexMode THEN HexOutcomes(q.data)
                ELSE {[ok |-> TRUE, bytes |-> Utf8(q.data)]}
  IN {IF p.ok THEN [q EXCEPT !.st = "ok", !.wire = p.bytes, !.mark = IF history THEN drained ELSE 0]
      ELSE Fail(q, "InvalidHex") : p \in parsed}
     \cup {Fail(q, "DeviceError")}

send_data(r) ==
  /\ Pending(r, "send_data")
  /\ IF open
     THEN \E done \in SendOutcomes(r) : Reply(r, done)
     ELSE Reply(r, Fail(r, "NotConnected"))
  /\ UNCHANGED <<flags, shell, client, core>>

RxEntry(bytes) == [data |-> bytes, hex |-> HexEncode(bytes), direction |-> "rx"]

\* the bytes buffered at the device
Buffered == [i \in 1..(arrived - drained) |-> drained + i]

\* read_available() returns zero or more entries built from the buffered bytes:
\* none for an empty buffer, else one entry for the drain or one entry per byte
Drains(bytes) ==
  IF bytes = <<>> THEN {<<>>}
  ELSE {<<RxEntry(bytes)>>, [i \in 1..Len(bytes) |-> RxEntry(<<bytes[i]>>)]}

read_data(r) ==
  /\ Pending(r, "read_data")
  /\ IF open
     THEN \/ /\ \E es \in Drains(Buffered) :
                  Reply(r, [r EXCEPT !.st = "ok", !.entries = es])
             /\ drained' = arrived
          \/ /\ Reply(r, Fail(r, "DeviceError"))
             /\ UNCHANGED drained
     ELSE /\ Reply(r, Fail(r, "NotConnected"))
          /\ UNCHANGED drained
  /\ UNCHANGED <<flags, shell, client, open, openedWith, arrived>>

\* the device sends its next byte; the open port buffers it
deviceSends ==
  /\ open
  /\ arrived < MaxRx
  /\ arrived' = arrived + 1
  /\ UNCHANGED <<flags, shell, client, inflight, open, openedWith, drained>>

\* ----------------------------------------- port enumerator and collaborators
\* the port tables the OS may present
PortTables == {<<>>, <<"COM1", "COM2">>}

\* list_ports(): the table, or DeviceError when the enumeration call fails
list_ports(r) ==
  /\ Pending(r, "list_ports")
  /\ \/ \E t \in PortTables : Reply(r, [r EXCEPT !.st = "ok", !.result = t])
     \/ Reply(r, Fail(r, "DeviceError"))
  /\ UNCHANGED <<flags, shell, client, core>>

\* the configs the store may hold
StoredConfigs ==
  {[DefaultConfig EXCEPT !.port = "COM1"],
   [DefaultConfig EXCEPT !.port = "COM2", !.parity = "even"]}

\* the persistence collaborators: each call succeeds or fails with IOError
get_config(r) ==
  /\ Pending(r, "get_config")
  /\ \/ \E c \in StoredConfigs : Reply(r, [r EXCEPT !.st = "ok", !.result = c])
     \/ Reply(r, Fail(r, "IOError"))
  /\ UNCHANGED <<flags, shell, client, core>>

save_config(r) ==
  /\ Pending(r, "save_config")
  /\ \/ Reply(r, [r EXCEPT !.st = "ok"])
     \/ Reply(r, Fail(r, "IOError"))
  /\ UNCHANGED <<flags, shell, client, core>>

save_log(r) ==
  /\ Pending(r, "save_log")
  /\ \/ Reply(r, [r EXCEPT !.st = "ok"])
     \/ Reply(r, Fail(r, "IOError"))
  /\ UNCHANGED <<flags, shell, client, core>>

\* --------------------------------------------------------- specifications
\* a session: connection life cycle, poller, sends from both paths, the log
Next ==
  \/ connect
  \/ \E r \in Requests : connectResolved(r)
  \/ \E r \in Requests : connectRejected(r)
  \/ disconnect
  \/ \E r \in Requests : disconnectResolved(r)
  \/ \E r \in Requests : disconnectRejected(r)
  \/ \E t \in timers : pollTick(t)
  \/ \E r \in Requests : pollResolved(r)
  \/ \E r \in Requests : pollRejected(r)
  \/ send
  \/ \E r \in Requests : sendResolved(r)
  \/ \E r \in Requests : sendRejected(r)
  \/ clearLog
  \/ \E t \in SessionTexts : editSendText(t)
  \/ \E r \in Requests : connect_serial(r)
  \/ \E r \in Requests : disconnect_serial(r)
  \/ \E r \in Requests : send_data(r)
  \/ \E r \in Requests : read_data(r)
  \/ deviceSends

Spec == Init /\ [][Next]_vars

\* the same session with the history of every request recorded
InitHistory ==
  /\ connected = FALSE
  /\ pollInterval = 0
  /\ timers = {}
  /\ dataLog = <<>>
  /\ sendText = <<>>
  /\ config = [DefaultConfig EXCEPT !.port = "COM1"]
  /\ inflight = EmptyBag
  /\ open = FALSE
  /\ arrived = 0
  /\ drained = 0
  /\ history = TRUE
  /\ persist = FALSE
  /\ stage = "mounted"
  /\ listening = TRUE
  /\ ports = <<"COM1">>
  /\ showSearch = FALSE
  /\ searchText = <<>>
  /\ searchIndex = -1
  /\ openedWith = NoSnapshot

SpecHistory == InitHistory /\ [][Next]_vars

\* the send paths: the send box in text and hex mode, terminal-mode keys, and the
\* connection life cycle around them; the poll timer does not fire and the device is
\* silent
NextSend ==
  \/ connect
  \/ \E r \in Requests : connectResolved(r)
  \/ \E r \in Requests : connectRejected(r)
  \/ disconnect
  \/ \E r \in Requests : disconnectResolved(r)
  \/ \E r \in Requests : disconnectRejected(r)
  \/ send
  \/ \E r \in Requests : sendResolved(r)
  \/ \E r \in Requests : sendRejected(r)
  \/ \E e \in SessionKeys : handleTerminalInput(e)
  \/ \E r \in Requests : terminalResolved(r)
  \/ \E r \in Requests : terminalRejected(r)
  \/ clearLog
  \/ \E t \in SendTexts : editSendText(t)
  \/ toggleTerminalMode
  \/ toggleHexMode
  \/ \E r \in Requests : connect_serial(r)
  \/ \E r \in Requests : disconnect_serial(r)
  \/ \E r \in Requests : send_data(r)

SpecSend == Init /\ [][NextSend]_vars

\* the codec: every text, mode and line ending through the send box, one call at a
\* time into an empty log, on a connection that stays open
NextCodec ==
  \/ connect
  \/ \E r \in Requests : connectResolved(r)
  \/ \E r \in Requests : connectRejected(r)
  \/ (inflight = EmptyBag /\ dataLog = <<>> /\ send)
  \/ \E r \in Requests : sendResolved(r)
  \/ \E r \in Requests : sendRejected(r)
  \/ clearLog
  \/ \E t \in CodecTexts : editSendText(t)
  \/ toggleHexMode
  \/ toggleAppendNewline
  \/ \E v \in {"crlf", "lf", "cr"} : selectNewlineType(v)
  \/ \E r \in Requests : connect_serial(r)
  \/ \E r \in Requests : send_data(r)

SpecCodec == Init /\ [][NextCodec]_vars

\* the life of the component: connect and disconnect clicks, their replies in any
\* order, the poll timer on a silent device, and the unmount
NextLifecycle ==
  \/ connect
  \/ \E r \in Requests : connectResolved(r)
  \/ \E r \in Requests : connectRejected(r)
  \/ disconnect
  \/ \E r \in Requests : disconnectResolved(r)
  \/ \E r \in Requests : disconnectRejected(r)
  \/ \E t \in timers : pollTick(t)
  \/ \E r \in Requests : pollResolved(r)
  \/ \E r \in Requests : pollRejected(r)
  \/ onUnmounted
  \/ \E r \in Requests : connect_serial(r)
  \/ \E r \in Requests : disconnect_serial(r)
  \/ \E r \in Requests : read_data(r)

SpecLifecycle == Init /\ [][NextLifecycle]_vars

\* the search bar over a log that sends from the send box fill
SearchTexts == {<<>>, <<97>>, <<122>>}            \* "", "a", "z"

SearchKeys == {KeyEvent(<<102>>, TRUE), KeyEvent(<<102>>, FALSE)}

NextSearch ==
  \/ connect
  \/ \E r \in Requests : connectResolved(r)
  \/ \E r \in Requests : connectRejected(r)
  \/ \E t \in SessionTexts : editSendText(t)
  \/ send
  \/ \E r \in Requests : sendResolved(r)
  \/ \E r \in Requests : sendRejected(r)
  \/ clearLog
  \/ \E e \in SearchKeys : handleKeydown(e)
  \/ \E t \in SearchTexts : editSearchText(t)
  \/ closeSearch
  \/ escapeSearch
  \/ findNext
  \/ findPrev
  \/ \E r \in Requests : connect_serial(r)
  \/ \E r \in Requests : send_data(r)

SpecSearch == Init /\ [][NextSearch]_vars

\* terminal mode: keys pressed on the hidden input during the life of a connection
NextTerminal ==
  \/ connect
  \/ \E r \in Requests : connectResolved(r)
  \/ \E r \in Requests : connectRejected(r)
  \/ disconnect
  \/ \E r \in Requests : disconnectResolved(r)
  \/ \E r \in Requests : disconnectRejected(r)
  \/ toggleTerminalMode
  \/ \E e \in TerminalKeys : handleTerminalInput(e)
  \/ \E r \in Requests : terminalResolved(r)
  \/ \E r \in Requests : terminalRejected(r)
  \/ \E r \in Requests : connect_serial(r)
  \/ \E r \in Requests : disconnect_serial(r)
  \/ \E r \in Requests : send_data(r)

SpecTerminal == Init /\ [][NextTerminal]_vars

\* the application from its construction: startup, port list, serial settings,
\* connection life cycle and the save_config calls they make; the poll timer does
\* not fire
InitStartup ==
  /\ connected = FALSE
  /\ pollInterval = 0
  /\ timers = {}
  /\ dataLog = <<>>
  /\ sendText = <<>>
  /\ config = DefaultConfig
  /\ inflight = EmptyBag
  /\ open = FALSE
  /\ arrived = 0
  /\ drained = 0
  /\ history = FALSE
  /\ persist = TRUE
  /\ stage = "created"
  /\ listening = FALSE
  /\ ports = <<>>
  /\ showSearch = FALSE
  /\ searchText = <<>>
  /\ searchIndex = -1
  /\ openedWith = NoSnapshot

ParityChoices == {"none", "even"}

NextStartup ==
  \/ onMounted
  \/ \E r \in Requests : loadConfigResolved(r)
  \/ \E r \in Requests : loadConfigRejected(r)
  \/ refreshPorts
  \/ \E r \in Requests : refreshPortsResolved(r)
  \/ \E r \in Requests : refreshPortsRejected(r)
  \/ \E v \in {"", "COM1", "COM2"} : selectPort(v)
  \/ \E v \in ParityChoices : selectParity(v)
  \/ connect
  \/ \E r \in Requests : connectResolved(r)
  \/ \E r \in Requests : connectRejected(r)
  \/ disconnect
  \/ \E r \in Requests : disconnectResolved(r)
  \/ \E r \in Requests : disconnectRejected(r)
  \/ \E r \in Requests : saveConfigResolved(r)
  \/ \E r \in Requests : saveConfigRejected(r)
  \/ \E r \in Requests : list_ports(r)
  \/ \E r \in Requests : get_config(r)
  \/ \E r \in Requests : save_config(r)
  \/ \E r \in Requests : connect_serial(r)
  \/ \E r \in Requests : disconnect_serial(r)

SpecStartup == InitStartup /\ [][NextStartup]_vars

\* the persistence calls: get_config at startup, save_config after a connect,
\* save_log of a log that a send has filled
NextPersist ==
  \/ onMounted
  \/ \E r \in Requests : loadConfigResolved(r)
  \/ \E r \in Requests : loadConfigRejected(r)
  \/ \E r \in Requests : refreshPortsResolved(r)
  \/ \E r \in Requests : refreshPortsRejected(r)
  \/ \E v \in {"COM1"} : selectPort(v)
  \/ connect
  \/ \E r \in Requests : connectResolved(r)
  \/ \E r \in Requests : connectRejected(r)
  \/ \E r \in Requests : saveConfigResolved(r)
  \/ \E r \in Requests : saveConfigRejected(r)
  \/ \E t \in SessionTexts : editSendText(t)
  \/ send
  \/ \E r \in Requests : sendResolved(r)
  \/ \E r \in Requests : sendRejected(r)
  \/ saveLog
  \/ \E r \in Requests : saveLogResolved(r)
  \/ \E r \in Requests : saveLogRejected(r)
  \/ \E r \in Requests : list_ports(r)
  \/ \E r \in Requests : get_config(r)
  \/ \E r \in Requests : save_config(r)
  \/ \E r \in Requests : save_log(r)
  \/ \E r \in Requests : connect_serial(r)
  \/ \E r \in Requests : send_data(r)

SpecPersist == InitStartup /\ [][NextPersist]_vars

\* ------------------------------------------------------------------ claims
\* steps, told by what they do to the requests in flight
Settles(r) == inflight' = inflight (-) SetToBag({r})
Serves(r, done) == done # r /\ inflight' = (inflight (-) SetToBag({r})) (+) SetToBag({done})
Issues(q) == inflight' = inflight (+) SetToBag({q})
Served == BagToSet(inflight')
\* r's promise is settled in this step, whatever calls the continuation makes
Gone(r) == CopiesIn(r, inflight') < CopiesIn(r, inflight)
Called(q) == CopiesIn(q, inflight') > CopiesIn(q, inflight)

IsPrefix(a, b) == Len(a) <= Len(b) /\ SubSeq(b, 1, Len(a)) = a
Last(seq) == seq[Len(seq)]

\* C1: every tx entry a successful send pushes has a hex field that is the canonical
\* encoding (uppercase, two digits per byte, single spaces) of the bytes that send
\* put on the line.
C1_TxHexIsCanonical ==
  [][\A r \in Requests :
       (r.cmd = "send_data" /\ r.st = "ok" /\ Settles(r) /\ Len(dataLog') = Len(dataLog) + 1)
       => Last(dataLog').hex = HexEncode(r.wire)]_vars

\* C2: every send_data call that succeeds, from the send box or from a terminal-mode
\* key, appends exactly one entry with direction tx to the log.
C2_OneTxPerSend ==
  [][\A r \in Requests :
       (r.cmd = "send_data" /\ r.st = "ok" /\ Settles(r))
       => /\ Len(dataLog') = Len(dataLog) + 1
          /\ IsPrefix(dataLog, dataLog')
          /\ Last(dataLog').direction = "tx"]_vars

\* C3: a send that fails changes nothing: not when it is issued, not when the core
\* rejects it, not when the rejection reaches the client; dataLog, connected, the
\* poller, sendText and the connection are as before.
C3_FailedSendChangesNothing ==
  [][\A r \in Requests \cup Served :
       (/\ r.cmd = "send_data"
        /\ \/ Issues(r)
           \/ r.st = "err" /\ Settles(r)
           \/ \E done \in Served : r.st = "sent" /\ done.st = "err" /\ Serves(r, done))
       => UNCHANGED <<dataLog, connected, pollInterval, timers, sendText, open>>]_vars

\* a send of "AB CD E" in hex mode has been rejected with InvalidHex and the
\* rejection is about to reach the client, whose send box still holds the text
C3_Witness ==
  \E r \in Requests :
    /\ r.cmd = "send_data" /\ r.from = "send" /\ r.hexMode
    /\ r.data = TxtOddToken \o CRLF
    /\ r.st = "err" /\ r.err = "InvalidHex"
    /\ sendText = TxtOddToken /\ connected /\ Len(dataLog) = 1

\* C4: the log is append-only: every step either extends dataLog (or leaves it) or
\* is a clearLog step.
C4_AppendOnly == [][IsPrefix(dataLog, dataLog') \/ clearLog]_vars

\* the log holds a tx and an rx entry and has outlived the connection
C4_Witness ==
  /\ Len(dataLog) = 2
  /\ \E i \in 1..2 : dataLog[i].direction = "tx"
  /\ \E i \in 1..2 : dataLog[i].direction = "rx"
  /\ ~connected /\ ~open /\ inflight = EmptyBag

\* C5: a connect served while the connection is open is rejected with
\* AlreadyConnected and leaves it open, and the rejection, when it reaches the
\* client, changes neither connected nor the poller nor the log.
C5_SecondConnectRejected ==
  [][/\ \A r \in Requests : \A done \in Served :
          (r.cmd = "connect_serial" /\ r.st = "sent" /\ open /\ Serves(r, done))
          => (done.st = "err" /\ done.err = "AlreadyConnected" /\ open')
     /\ \A r \in Requests :
          (r.cmd = "connect_serial" /\ r.err = "AlreadyConnected" /\ Settles(r))
          => UNCHANGED <<connected, pollInterval, timers, dataLog, open>>]_vars

\* the first connect has made the client connected with one poller, and the second
\* connect's AlreadyConnected is about to reach it
C5_Witness ==
  /\ connected /\ open
  /\ pollInterval # 0 /\ timers = {pollInterval}
  /\ \E r \in Requests : r.cmd = "connect_serial" /\ r.err = "AlreadyConnected"

\* C6: while the client shows disconnected no send is issued, from the send box or
\* from a terminal key; a send the core serves while the connection is closed is
\* rejected with NotConnected and puts nothing on the line; and the rejection
\* appends nothing to the log.
C6_NoSendWhileDisconnected ==
  [][/\ \A q \in Served : (q.cmd = "send_data" /\ Issues(q)) => connected
     /\ \A r \in Requests : \A done \in Served :
          (r.cmd = "send_data" /\ r.st = "sent" /\ ~open /\ Serves(r, done))
          => (done.st = "err" /\ done.err = "NotConnected" /\ done.wire = <<>>)
     /\ \A r \in Requests :
          (r.cmd = "send_data" /\ r.st = "err" /\ Settles(r)) => dataLog' = dataLog]_vars

\* the disconnect has completed, text is waiting in the send box, and a send that
\* reached the core after the disconnect was rejected with NotConnected
C6_Witness ==
  /\ ~connected /\ ~open /\ sendText # <<>>
  /\ \E r \in Requests : r.cmd = "send_data" /\ r.err = "NotConnected"
  /\ ~ \E r \in Requests : r.cmd = "disconnect_serial"

\* C7: once disconnect() has begun, the poller issues no read and no send issued
\* from then on succeeds: it is rejected with NotConnected or DeviceError.
C7_NothingSucceedsAfterDisconnectBegins ==
  \A r \in Requests :
    r.late => /\ r.cmd # "read_data"
              /\ r.cmd = "send_data" =>
                   (r.st # "ok" /\ (r.st = "err" => r.err \in {"NotConnected", "DeviceError"}))

\* C8: a poll tick appends exactly the entries its read returned, in their order,
\* and changes neither connected nor the poller; a read served on an open
\* connection with nothing buffered returns no entries or a device fault, never
\* NotConnected, and its empty reply leaves the log as it is.
C8_PollAppendsWhatReadReturned ==
  [][/\ \A r \in Requests :
          (r.cmd = "read_data" /\ r.st = "ok" /\ Settles(r))
          => /\ dataLog' = dataLog \o r.entries
             /\ UNCHANGED <<connected, pollInterval, timers>>
     /\ \A r \in Requests : \A done \in Served :
          (r.cmd = "read_data" /\ r.st = "sent" /\ open /\ Buffered = <<>> /\ Serves(r, done))
          => \/ done.st = "ok" /\ done.entries = <<>>
             \/ done.st = "err" /\ done.err = "DeviceError"]_vars

\* one read has returned two entries that the tick can push, another has returned
\* none
C8_Witness ==
  /\ Len(dataLog) + 2 <= MaxLog
  /\ \E r \in Requests : r.cmd = "read_data" /\ r.st = "ok" /\ Len(r.entries) = 2
  /\ \E r \in Requests : r.cmd = "read_data" /\ r.st = "ok" /\ r.entries = <<>>

\* C9: the log is in creation order: rx entries in the order the device buffer was
\* drained, and a tx entry before every rx entry drained after its send.
RxInDrainOrder ==
  \A i, j \in 1..Len(dataLog) :
    (i < j /\ dataLog[i].direction = "rx" /\ dataLog[j].direction = "rx")
    => Last(dataLog[i].data) < dataLog[j].data[1]

C9_CreationOrder ==
  [][/\ RxInDrainOrder'
     /\ \A r \in Requests :
          (Resolved(r, "send_data", "send") /\ Settles(r) /\ Len(dataLog') = Len(dataLog) + 1)
          => \A i \in 1..Len(dataLog) :
               dataLog[i].direction = "rx" => Last(dataLog[i].data) <= r.mark]_vars

\* C10: connected changes only when a connect or a disconnect that succeeded
\* reaches the client; a failed read or send changes neither connected nor the
\* poller, and a device fault leaves the connection open.
C10_NoImplicitTransition ==
  [][/\ connected' # connected
          => \E r \in Requests : /\ r.cmd \in {"connect_serial", "disconnect_serial"}
                                 /\ r.st = "ok" /\ Settles(r)
     /\ \A r \in Requests :
          (r.cmd \in {"read_data", "send_data"} /\ r.st = "err" /\ Settles(r))
          => UNCHANGED <<connected, pollInterval, timers>>
     /\ \A r \in Requests : \A done \in Served :
          (r.cmd \in {"read_data", "send_data"} /\ Serves(r, done) /\ done.st = "err")
          => open' = open]_vars

\* during an open session a read and a send have both failed with a device fault,
\* and the client is still connected and polling
C10_Witness ==
  /\ connected /\ open /\ pollInterval # 0 /\ timers = {pollInterval}
  /\ \E r \in Requests : r.cmd = "read_data" /\ r.err = "DeviceError"
  /\ \E r \in Requests : r.cmd = "send_data" /\ r.err = "DeviceError"

\* C11: whenever the client shows connected, the port and the parity held in config
\* are those the open connection was opened with.
C11_ConfigImmutableWhileConnected ==
  connected => Snapshot(config) = openedWith

\* C12: when a list_ports call has failed and the failure reaches the client, the
\* list of selectable ports is empty afterwards, whatever it held before.
C12_FailedRefreshEmptiesPorts ==
  [][\A r \in Requests :
       (r.cmd = "list_ports" /\ r.st = "err" /\ Settles(r)) => ports' = <<>>]_vars

\* C13: in every state where the client shows connected and no disconnect is in
\* flight a poll timer is scheduled (the premise of its liveness half: what the
\* device has buffered is eventually read and logged).
C13_PollerWhileConnected ==
  (connected /\ ~Disconnecting) => (pollInterval # 0 /\ pollInterval \in timers)

\* C14: a persistence call that fails with IOError changes nothing when the
\* collaborator fails and nothing when the failure reaches the client: config, the
\* log, connected, the poller and the component are as before, for get_config,
\* save_config and save_log alike; and after a failed get_config startup goes on to
\* list the ports.
C14_PersistenceFailureHarmless ==
  [][/\ \A r \in Requests :
          (r.err = "IOError" /\ Gone(r))
          => /\ UNCHANGED <<config, dataLog, connected, pollInterval, timers, stage, core>>
             /\ r.cmd = "get_config"
                  => \E q \in Served : q.cmd = "list_ports" /\ q.st = "sent" /\ Called(q)
     /\ \A r \in Requests : \A done \in Served :
          (Serves(r, done) /\ done.err = "IOError") => UNCHANGED <<client, core>>]_vars

\* the client is connected and polling with an entry in its log, and both the
\* save_config of the connect and a save_log have failed
C14_Witness ==
  /\ connected /\ pollInterval # 0 /\ timers = {pollInterval} /\ Len(dataLog) = 1
  /\ \E r \in Requests : r.cmd = "save_config" /\ r.err = "IOError"
  /\ \E r \in Requests : r.cmd = "save_log" /\ r.err = "IOError"

\* what a key of the terminal is to send, <<>> for nothing
C15_Mapping(e) ==
  IF e.ctrlKey /\ Len(e.key) = 1 /\ toLowerCase(e.key)[1] \in 97..122
    THEN <<toLowerCase(e.key)[1] - 96>>
  ELSE IF e.key = KeyEnter THEN CR
  ELSE IF e.key = KeyBackspace THEN DEL
  ELSE IF Len(e.key) = 1 THEN e.key
  ELSE <<>>

\* C15: in terminal mode while connected a key sends what the mapping says: Ctrl
\* with a letter its control character (letter code minus 96), Enter CR, Backspace
\* DEL, any other one-character key that character, and every other key nothing.
C15_TerminalKeyMapping ==
  [][\A e \in TerminalKeys :
       handleTerminalInput(e)
       => /\ C15_Mapping(e) # <<>>
          /\ \E q \in Served : Called(q) /\ q.cmd = "send_data" /\ q.data = C15_Mapping(e)]_vars

\* no connect and no disconnect request is in flight
Quiet == ~ \E r \in Requests : r.cmd \in {"connect_serial", "disconnect_serial"}

\* C16: whenever no connect or disconnect request is in flight, the client's
\* connected flag agrees with the connection state of the serial core.
C16_ConnectedAgreesWithCore ==
  Quiet => (connected <=> open)

\* C17: whenever no connect or disconnect request is in flight (and the component
\* is mounted), a poll timer is active if and only if connected is true.
C17_PollerIffConnected ==
  (Quiet /\ stage = "mounted") => (connected <=> timers # {})

\* C18: every interval timer that is not cleared is the one pollInterval refers to,
\* so there is never more than one.
C18_AtMostOneTimer ==
  /\ Cardinality(timers) <= 1
  /\ \A t \in timers : t = pollInterval

\* a poll timer is running and the success of a further connect is about to reach
\* the client
C18_Witness ==
  /\ pollInterval # 0 /\ timers = {pollInterval}
  /\ \E r \in Requests : r.cmd = "connect_serial" /\ r.st = "ok"

\* C19: once the component is unmounted no poll timer is active and no read is
\* issued.
C19_NoPollerAfterUnmount ==
  [][stage' = "unmounted"
       => /\ timers' = {} /\ pollInterval' = 0
          /\ ~ \E q \in Served : q.cmd = "read_data" /\ Called(q)]_vars

\* C20: whenever the search bar is hidden the search text is empty, so the
\* displayed log is the whole data log.
C20_HiddenSearchShowsAll ==
  ~showSearch => (searchText = <<>> /\ filteredLog = dataLog)

====
